---------------------------- MODULE Spec2Model ----------------------------
(***************************************************************************)
(* The importance-weighted embedding transform of example/src/main.tsx:    *)
(* searchVector, vectorWithImportance, normalizeVector, modifyImportance,  *)
(* getImportance and vectorWithImportanceDimension.                        *)
(*                                                                         *)
(* Numbers.  The source computes in IEEE-754 doubles: every +, *, / and    *)
(* Math.sqrt returns the exact result rounded to the nearest representable *)
(* number.  The model keeps that shape on a coarser grid: a number is an   *)
(* integer count of 1/Scale units, and Mul, Div and Sqrt return the exact  *)
(* result rounded to the nearest unit (addition is exact on the grid).     *)
(* So sqrt(x)^2 = x, |normalize(v)| = 1 and normalize(normalize(v)) =      *)
(* normalize(v) are NOT built in: they hold only as far as rounding lets   *)
(* them, as in the source.                                                 *)
(***************************************************************************)
EXTENDS Integers, Sequences, FiniteSets

\* Resolution of the number grid: the value of a model number n is n/Scale.
Scale == 1000

\* The index's cap on vector width (the literal 4096 of the source; the
\* source's 4095 is Limit - 1).
Limit == 4096

-----------------------------------------------------------------------------
(* Rounded arithmetic *)

\* n / d rounded to the nearest integer, halves away from zero (d > 0).
RoundDiv(n, d) ==
  IF n >= 0 THEN (2 * n + d) \div (2 * d) ELSE -((2 * (-n) + d) \div (2 * d))

\* a * b
Mul(a, b) == RoundDiv(a * b, Scale)

\* a / b for b > 0 (the only divisor in the source is a positive magnitude)
Div(a, b) == RoundDiv(a * Scale, b)

\* The largest r in lo..hi with r * r <= n (given lo * lo <= n).
RECURSIVE FloorRoot(_, _, _)
FloorRoot(n, lo, hi) ==
  IF lo >= hi THEN lo
  ELSE LET mid == (lo + hi + 1) \div 2
       IN IF mid * mid <= n THEN FloorRoot(n, mid, hi)
          ELSE FloorRoot(n, lo, mid - 1)

\* Math.sqrt(a) for a >= 0, rounded to the nearest unit.
Sqrt(a) ==
  LET n == a * Scale
      r == FloorRoot(n, 0, IF n < 46340 THEN n ELSE 46340)
  IN IF n - r * r > r THEN r + 1 ELSE r

-----------------------------------------------------------------------------
(* The source's functions *)

\* Array.prototype.slice(start, end) for 0 <= start <= end <= length.
Slice(array, start, end) == SubSeq(array, start + 1, end)

\* vector.reduce((acc, v) => acc + v * v, acc) over the elements lo..hi,
\* left to right.  The range is split in two so that the evaluation does not
\* nest once per element; the accumulator is threaded through the left half
\* and then the right half, so the additions happen in the source's order.
RECURSIVE Reduce(_, _, _, _)
Reduce(vector, acc, lo, hi) ==
  IF lo > hi THEN acc
  ELSE IF lo = hi THEN acc + Mul(vector[lo], vector[lo])
  ELSE LET mid == (lo + hi) \div 2
           left == Reduce(vector, acc, lo, mid)
       IN IF left \in Int THEN Reduce(vector, left, mid + 1, hi) ELSE left

\* Faulty variant: divides by the sum of squares, the square root forgotten.
normalizeVectorBySumOfSquares(vector) ==
  LET sumOfSquares == Reduce(vector, 0, 1, Len(vector))
  IN IF sumOfSquares = 0
       THEN [i \in 1..Len(vector) |-> 0]
       ELSE [i \in 1..Len(vector) |-> Div(vector[i], sumOfSquares)]

\* Faulty variant: a zero magnitude yields an empty vector.
normalizeVectorEmptyOnZero(vector) ==
  LET sumOfSquares == Reduce(vector, 0, 1, Len(vector))
      magnitude == Sqrt(sumOfSquares)
  IN IF magnitude = 0
       THEN <<>>
       ELSE [i \in 1..Len(vector) |-> Div(vector[i], magnitude)]

normalizeVector(vector) ==
  LET sumOfSquares == Reduce(vector, 0, 1, Len(vector))
      magnitude == Sqrt(sumOfSquares)
  IN IF magnitude = 0
       THEN [i \in 1..Len(vector) |-> 0]
       ELSE [i \in 1..Len(vector) |-> Div(vector[i], magnitude)]

\* Faulty variant: the cap is not applied to the query vector.
searchVectorNoCap(embedding) == Append(embedding, 0)

\* Faulty variant: the query is normalized like a stored vector.
searchVectorNormalized(embedding) ==
  IF Len(embedding) = Limit
    THEN Append(normalizeVector(Slice(embedding, 0, Limit - 1)), 0)
    ELSE Append(normalizeVector(embedding), 0)

searchVector(embedding) ==
  IF Len(embedding) = Limit
    THEN Append(Slice(embedding, 0, Limit - 1), 0)
    ELSE Append(embedding, 0)

\* Faulty variant: the final dimension is not dropped at the cap.
vectorWithImportanceNoCap(embedding, importance) ==
  Append(normalizeVector(embedding), Sqrt(importance))

vectorWithImportance(embedding, importance) ==
  LET vectorToModify ==
        IF Len(embedding) = Limit
          THEN Slice(embedding, 0, Limit - 1) ELSE embedding
      normalized == normalizeVector(vectorToModify)
      sqrtImportance == Sqrt(importance)
  IN Append(normalized, sqrtImportance)

\* Faulty variant: the importance slot is not removed before re-encoding.
modifyImportanceWholeVector(vector, importance) ==
  vectorWithImportance(vector, importance)

\* Faulty variant: a stored vector at the cap is capped again, like a raw
\* embedding, before its importance slot is removed.
modifyImportanceCapped(vector, importance) ==
  LET capped == IF Len(vector) = Limit
                  THEN Slice(vector, 0, Limit - 1) ELSE vector
      vectorToModify == Slice(capped, 0, Len(capped) - 1)
  IN vectorWithImportance(vectorToModify, importance)

modifyImportance(vector, importance) ==
  LET vectorToModify == Slice(vector, 0, Len(vector) - 1)
  IN vectorWithImportance(vectorToModify, importance)

\* Faulty variant: the last element is returned without being squared.
getImportanceUnsquared(vector) == vector[Len(vector)]

getImportance(vector) == Mul(vector[Len(vector)], vector[Len(vector)])

\* Faulty variant: the cap is not respected.
vectorWithImportanceDimensionNoCap(dimensions) == dimensions + 1

vectorWithImportanceDimension(dimensions) ==
  IF dimensions = Limit THEN Limit ELSE dimensions + 1

-----------------------------------------------------------------------------
(* The callers' inputs *)

\* Longest short embedding the caller supplies.
MaxLen == 2

\* Most modifyImportance calls applied to one stored vector.
MaxReweights == 2

\* Tolerance of the approximate comparisons, in units of 1/Scale.
Eps == 3

\* Element values: -2, 0, 3, 4, 0.6, 0.8, and 0.03, whose square is of the
\* order of one unit of the grid (as the square of 1e-162 is of the order of
\* the smallest double).
Values == {-2 * Scale, 0, 3 * Scale, 4 * Scale, (6 * Scale) \div 10,
           (8 * Scale) \div 10, (3 * Scale) \div 100}

\* Importance values in [0, 1]: 0, 0.5, 0.9 and 1.
Importances == {0, Scale \div 2, (9 * Scale) \div 10, Scale}

RECURSIVE SeqsUpTo(_, _)
SeqsUpTo(S, n) ==
  IF n = 0 THEN {<<>>}
  ELSE LET shorter == SeqsUpTo(S, n - 1)
       IN shorter \cup {Append(s, x) : s \in {t \in shorter : Len(t) = n - 1},
                                       x \in S}

\* An embedding of n >= 3 dimensions: a, b, zeros, and c in the last place.
\* (Long embeddings are sparse: the grid of 1/Scale cannot resolve the
\* elements of a dense unit vector of thousands of dimensions.)
LongEmbedding(n, a, b, c) ==
  [i \in 1..n |-> IF i = 1 THEN a ELSE IF i = 2 THEN b
                  ELSE IF i = n THEN c ELSE 0]

\* Embeddings at the cap: one dimension below it, at it (non-zero; non-zero
\* in the last place only; all zero) and one dimension above it.
LongEmbeddings ==
  {LongEmbedding(Limit - 1, 3 * Scale, 4 * Scale, -2 * Scale),
   LongEmbedding(Limit, 3 * Scale, 4 * Scale, -2 * Scale),
   LongEmbedding(Limit, 0, 0, -2 * Scale),
   LongEmbedding(Limit, 0, 0, 0),
   LongEmbedding(Limit + 1, 3 * Scale, 4 * Scale, -2 * Scale)}

ShortEmbeddings == SeqsUpTo(Values, MaxLen)

\* The (embedding, importance) pairs a caller starts from.  A long embedding
\* starts from importance 0.9 and meets the other importances by re-weighting.
Inputs ==
  (ShortEmbeddings \X Importances)
    \cup (LongEmbeddings \X {(9 * Scale) \div 10})

-----------------------------------------------------------------------------
(* The caller: one document's embedding is encoded and stored, re-weighted, *)
(* decoded and searched for.                                                *)

VARIABLES
  embedding,   \* the raw embedding the caller supplied
  importance,  \* the importance supplied with it
  encoded,     \* vectorWithImportance(embedding, importance) as first stored
  stored,      \* the vector now in the index (<<>>: none yet)
  weight,      \* the importance most recently written into stored
  reweights,   \* modifyImportance calls applied to stored
  call,        \* the most recent call
  returned     \* its return value

vars == <<embedding, importance, encoded, stored, weight, reweights, call,
          returned>>

Init ==
  /\ \E input \in Inputs : embedding = input[1] /\ importance = input[2]
  /\ encoded = <<>>
  /\ stored = <<>>
  /\ weight = importance
  /\ reweights = 0
  /\ call = "none"
  /\ returned = <<>>

\* The write path: the caller stores vectorWithImportance(embedding, importance).
Encode ==
  /\ stored = <<>>
  /\ stored' = vectorWithImportance(embedding, importance)
  /\ encoded' = stored'
  /\ call' = "vectorWithImportance"
  /\ returned' = stored'
  /\ UNCHANGED <<embedding, importance, weight, reweights>>

\* The re-weight path: the stored vector is replaced by modifyImportance of it.
Reweight(newImportance) ==
  /\ stored # <<>>
  /\ reweights < MaxReweights
  /\ stored' = modifyImportance(stored, newImportance)
  /\ weight' = newImportance
  /\ reweights' = reweights + 1
  /\ call' = "modifyImportance"
  /\ returned' = stored'
  /\ UNCHANGED <<embedding, importance, encoded>>

\* The read path: the query vector of the same raw embedding.
Search ==
  /\ call # "searchVector"
  /\ call' = "searchVector"
  /\ returned' = searchVector(embedding)
  /\ UNCHANGED <<embedding, importance, encoded, stored, weight, reweights>>

\* The importance is read back from the stored vector.
Decode ==
  /\ stored # <<>>
  /\ call # "getImportance"
  /\ call' = "getImportance"
  /\ returned' = getImportance(stored)
  /\ UNCHANGED <<embedding, importance, encoded, stored, weight, reweights>>

\* The index asks for the column width of embeddings of this dimension.
Dimension ==
  /\ call # "vectorWithImportanceDimension"
  /\ call' = "vectorWithImportanceDimension"
  /\ returned' = vectorWithImportanceDimension(Len(embedding))
  /\ UNCHANGED <<embedding, importance, encoded, stored, weight, reweights>>

Next ==
  \/ Encode
  \/ \E newImportance \in Importances : Reweight(newImportance)
  \/ Search
  \/ Decode
  \/ Dimension

Spec == Init /\ [][Next]_vars

-----------------------------------------------------------------------------
(* Vocabulary of the properties *)

\* All elements of a vector but the last, and the last.
Leading(v) == SubSeq(v, 1, Len(v) - 1)
Last(v) == v[Len(v)]

IsZero(v) == \A i \in 1..Len(v) : v[i] = 0

\* The elements of an embedding that fit under the cap beside the importance.
Retained(e) == IF Len(e) = Limit THEN SubSeq(e, 1, Limit - 1) ELSE e

\* The sum of the squares and the dot product, computed in rounded arithmetic.
SumOfSquares(v) == Reduce(v, 0, 1, Len(v))

RECURSIVE Dot(_, _, _)
Dot(a, b, n) == IF n = 0 THEN 0 ELSE Dot(a, b, n - 1) + Mul(a[n], b[n])

Abs(n) == IF n < 0 THEN -n ELSE n

\* Two numbers, and two vectors element by element, agree within Eps units.
Near(a, b) == Abs(a - b) <= Eps
NearSeq(a, b) == Len(a) = Len(b) /\ \A i \in 1..Len(a) : Near(a[i], b[i])

Half == Scale \div 2

\* A vector of ordinary magnitude: some element is at least 1/2 in absolute
\* value, so that its sum of squares is large against one unit of rounding
\* (for doubles: the sum of squares neither underflows nor overflows).
Ordinary(v) == \E i \in 1..Len(v) : Abs(v[i]) >= Half
Six == (6 * Scale) \div 10
Eight == (8 * Scale) \div 10
Nine == (9 * Scale) \div 10

-----------------------------------------------------------------------------
\* C1: the importance read back from a stored vector is the importance that
\* was written into it, within the tolerance, whatever the embedding's length.
C1_ImportanceRoundTrip ==
  call = "getImportance" => Near(returned, weight)

\* A vector at the cap whose importance 0.9 reads back inexactly.
C1_Witness ==
  /\ call = "getImportance"
  /\ Len(embedding) = Limit
  /\ ~IsZero(Retained(embedding))
  /\ weight = Nine
  /\ returned # weight

\* C2: the stored vector, the query vector and the column width agree in
\* length for one embedding.
C2_LengthAlignment ==
  encoded # <<>> =>
    /\ call = "searchVector" => Len(returned) = Len(encoded)
    /\ call = "vectorWithImportanceDimension" => returned = Len(encoded)

C2_Witness ==
  /\ encoded # <<>>
  /\ call = "searchVector"
  /\ Len(embedding) = Limit
  /\ Len(returned) = Limit

\* C3 as stated: the width is D at the cap and D + 1 otherwise, and is never
\* above the cap.
C3_DimensionCapAlways ==
  call = "vectorWithImportanceDimension" =>
    /\ returned = IF Len(embedding) = Limit THEN Len(embedding)
                  ELSE Len(embedding) + 1
    /\ returned <= Limit

\* C3 for embeddings that fit the index: the width is D at the cap and D + 1
\* otherwise, and is not above the cap for any D up to the cap.
C3_DimensionCap ==
  call = "vectorWithImportanceDimension" =>
    /\ returned = IF Len(embedding) = Limit THEN Len(embedding)
                  ELSE Len(embedding) + 1
    /\ Len(embedding) <= Limit => returned <= Limit

C3_Witness ==
  /\ call = "vectorWithImportanceDimension"
  /\ Len(embedding) = Limit
  /\ returned = Limit

\* C4 as stated: after one re-weighting to x2 the leading elements are equal
\* to those of vectorWithImportance(e, x2) and to those of the vector that
\* was stored.
C4_ReweightExact ==
  reweights = 1 =>
    /\ Leading(stored) = Leading(vectorWithImportance(embedding, weight))
    /\ Leading(stored) = Leading(encoded)

\* C4 amended: for an embedding of ordinary magnitude or all zero they agree
\* element by element within the tolerance.
C4_ReweightPreservesDirection ==
  (reweights = 1 /\ (Ordinary(Retained(embedding)) \/ IsZero(embedding))) =>
    /\ NearSeq(Leading(stored),
               Leading(vectorWithImportance(embedding, weight)))
    /\ NearSeq(Leading(stored), Leading(encoded))

\* A re-weighting that moved an element of the prefix by rounding.
C4_Witness ==
  /\ reweights = 1
  /\ Ordinary(Retained(embedding))
  /\ weight # importance
  /\ Leading(stored) # Leading(encoded)

\* C5: the query vector is the retained elements of the embedding, unchanged
\* and in order, followed by 0.
C5_QueryVectorContent ==
  call = "searchVector" =>
    /\ Last(returned) = 0
    /\ Leading(returned) = Retained(embedding)
    /\ Len(embedding) # Limit => Leading(returned) = embedding
    /\ embedding = <<0, 0>> => returned = <<0, 0, 0>>

C5_Witness ==
  /\ call = "searchVector"
  /\ Len(embedding) = Limit
  /\ embedding[1] # 0
  /\ embedding[Limit] # 0

\* C6 as stated: the leading elements of the encoding of any non-zero
\* embedding have a sum of squares of exactly 1.
C6_UnitNormExact ==
  (encoded # <<>> /\ ~IsZero(embedding)) =>
    SumOfSquares(Leading(encoded)) = Scale

\* C6 amended: when the retained elements are of ordinary magnitude the sum
\* of squares is 1 within the tolerance; the two worked examples are exact.
C6_UnitNormPrefix ==
  encoded # <<>> =>
    /\ Ordinary(Retained(embedding)) =>
         Near(SumOfSquares(Leading(encoded)), Scale)
    /\ (embedding = <<3 * Scale, 4 * Scale>> /\ importance = Half) =>
         Leading(encoded) = <<Six, Eight>>
    /\ (embedding = <<Six, Eight>> /\ importance = Scale) =>
         encoded = <<Six, Eight, Scale>>

\* An encoding whose prefix is a unit vector only within the tolerance.
C6_Witness ==
  /\ encoded # <<>>
  /\ Ordinary(Retained(embedding))
  /\ SumOfSquares(Leading(encoded)) # Scale

\* C7: at the cap the last raw element is dropped before normalization; one
\* below the cap nothing is dropped.
C7_CapBoundary ==
  encoded # <<>> =>
    /\ Len(embedding) = Limit =>
         /\ Len(encoded) = Limit
         /\ encoded = vectorWithImportance(SubSeq(embedding, 1, Limit - 1),
                                           importance)
    /\ Len(embedding) = Limit - 1 =>
         /\ Len(encoded) = Limit
         /\ \A i \in 1..Len(embedding) :
              embedding[i] # 0 => encoded[i] # 0

C7_Witness ==
  /\ encoded # <<>>
  /\ Len(embedding) = Limit
  /\ embedding[1] # 0
  /\ embedding[Limit] # 0

\* C8: an all-zero embedding encodes to zeros (as many as are retained)
\* followed by sqrt(importance).
C8_ZeroEmbedding ==
  (encoded # <<>> /\ IsZero(embedding)) =>
    /\ Len(encoded) = Len(Retained(embedding)) + 1
    /\ IsZero(Leading(encoded))
    /\ Last(encoded) = Sqrt(importance)

C8_Witness ==
  /\ encoded # <<>>
  /\ IsZero(embedding)
  /\ Len(embedding) = Limit
  /\ Last(encoded) # 0

\* C9: however often a stored vector is re-weighted, it keeps its length.
C9_ReweightKeepsLength ==
  stored # <<>> => Len(stored) = Len(encoded)

C9_Witness ==
  /\ reweights >= 2
  /\ Len(embedding) = Limit
  /\ Len(stored) = Limit

\* C10 as the doc comment states it: the prefix is scaled to magnitude
\* 1 - importance, so [.6, .8] at importance .5 is stored as [.3, .4, .707]
\* and scores .5 against its own query vector.
C10_DocCommentScaling ==
  (encoded # <<>> /\ embedding = <<Six, Eight>> /\ importance = Half) =>
    /\ encoded = <<(3 * Scale) \div 10, (4 * Scale) \div 10, Sqrt(Half)>>
    /\ Dot(searchVector(embedding), encoded, Len(encoded)) = Half

=============================================================================
